---- MODULE Spec2Model ----
(***************************************************************************)
(* Coffee Shop API: accounts, email verification, JWT session tokens,     *)
(* admin user administration and the stale-account cleanup task.          *)
(*                                                                         *)
(* The store is the `users` table.  Every unit of work (an HTTP request,   *)
(* the create_admin script, a cleanup run) occupies a slot of Reqs and     *)
(* advances one database round trip at a time, so that units of work       *)
(* interleave exactly where the code awaits the store.                     *)
(*                                                                         *)
(* Time is a counter of clock ticks; the lifetimes of config.py are        *)
(* environment settings and are set here to a few ticks each.  The         *)
(* profile columns first_name / last_name and updated_at are not part of   *)
(* the state: no operation reads them.                                     *)
(***************************************************************************)
EXTENDS Integers, FiniteSets, Sequences, TLC

\* ---------------------------------------------------------------- bounds
MaxTime == 3
MaxUsers == 2

Reqs == {1, 2}
Emails == {"a@x", "b@x"}
SignupPasswords == {"Passw0rd1"}
LoginPasswords == {"Passw0rd1", "Wr0ngPass"}
\* the codes secrets.randbelow draws, and the codes a caller submits
DrawnCodes == {"000000"}
Codes == {"000000", "000001"}

\* ------------------------------------------------------------- settings
SECRET_KEY == "secret"
ACCESS_TOKEN_EXPIRE_MINUTES == 1
REFRESH_TOKEN_EXPIRE_DAYS == 2
VERIFICATION_CODE_EXPIRE_HOURS == 1
UNVERIFIED_USER_DELETE_DAYS == 2

\* ---------------------------------------------------------------- values
None == <<>>
NoTime == -1
USER == "user"
ADMIN == "admin"

\* str(user.id) and int(user_id_str)
Str(n) == <<"str", n>>
ParseInt(s) == s[2]

\* pwd_context.hash / pwd_context.verify
hash_password(password) == <<"bcrypt", password>>
verify_password(plain_password, hashed_password) ==
    hashed_password = hash_password(plain_password)

\* jwt.encode: the claims signed with the key
Encode(payload, key) == [payload |-> payload, sig |-> key]

create_access_token(data, t) ==
    Encode([sub |-> data.sub, exp |-> t + ACCESS_TOKEN_EXPIRE_MINUTES], SECRET_KEY)

create_refresh_token_NoKind(data, t) ==
    Encode([sub |-> data.sub, exp |-> t + REFRESH_TOKEN_EXPIRE_DAYS], SECRET_KEY)

create_refresh_token(data, t) ==
    Encode([sub |-> data.sub, exp |-> t + REFRESH_TOKEN_EXPIRE_DAYS, type |-> "refresh"],
           SECRET_KEY)

DecodeFails_IgnoresSignature(token, t) == token.payload.exp < t

DecodeFails_IgnoresExpiry(token, t) == token.sig /= SECRET_KEY

\* decode_token raises JWTError (DecodeFails) on a bad signature or an
\* expired token, and returns the payload otherwise
DecodeFails(token, t) ==
    \/ token.sig /= SECRET_KEY
    \/ token.payload.exp < t
decode_token(token) == token.payload

\* payload.get(key)
Get(payload, key) == IF key \in DOMAIN payload THEN payload[key] ELSE None

NoToken == Encode([sub |-> Str(0), exp |-> 0], "none")
ForgedTokens ==
    { Encode([sub |-> Str(1), exp |-> MaxTime + 1, type |-> "refresh"], "forged") }

\* a token signed with the key whose payload has no "sub"
SubjectlessTokens == { Encode([exp |-> MaxTime + 1], SECRET_KEY) }

\* ----------------------------------------------------------------- state
VARIABLES
    users,      \* the users table: id -> row
    nextId,     \* the next primary key the store assigns
    now,        \* the clock, datetime.now(timezone.utc)
    req,        \* the units of work between two store round trips: slot -> request
    resp,       \* the request and response of the unit of work that just finished,
                \* until the caller has taken it
    issuable,   \* <<id, t>>: account id existed at time t, so that signup or
                \* login could return its token pair issued at t
    rotated     \* <<token, n>>: refresh has answered 200 to token n times or
                \* more (n up to 2), where the history of rotations is kept
                \* (RefreshRecorded)

vars == <<users, nextId, now, req, resp, issuable, rotated>>

NoUser ==
    [id |-> 0, email |-> "", hashed_password |-> None, role |-> USER,
     is_verified |-> FALSE, verification_code |-> None,
     verification_code_expires_at |-> NoTime, created_at |-> NoTime]

\* the ORM object a session holds for row id
Row(id) == [id |-> id] @@ users[id]

EmptyDict == <<>>

Idle ==
    [op |-> "none", pc |-> "idle", token |-> NoToken, email |-> "",
     password |-> "", code |-> "", target |-> 0, update_dict |-> EmptyDict, uid |-> 0,
     user |-> NoUser, expires_at |-> NoTime, cutoff_date |-> NoTime, ids |-> {},
     emails |-> {}, status |-> 0, detail |-> "",
     access_token |-> NoToken, refresh_token |-> NoToken]

\* slot r takes a new unit of work; slots are interchangeable, so the
\* lowest free slot is taken
Free(r) == /\ resp = Idle
           /\ req[r].pc = "idle"
           /\ \A q \in Reqs : q < r => req[q].pc /= "idle"

\* slot r is at position pc
At(r, pc) == resp = Idle /\ req[r].pc = pc

\* the tokens a client can present: the pairs signup and login return, and
\* tokens it signed itself without the key
HeldTokens ==
    UNION {{create_access_token([sub |-> Str(it[1])], it[2]),
            create_refresh_token([sub |-> Str(it[1])], it[2])} : it \in issuable}
        \cup ForgedTokens

ByEmail_Misses(email) == {}

\* SELECT ... WHERE email = :email
ByEmail(email) == {i \in DOMAIN users : users[i].email = email}

UniqueViolation_NoIndex(id, email) == FALSE

\* the unique index on users.email, for row id taking the value email
UniqueViolation(id, email) == \E i \in DOMAIN users : i /= id /\ users[i].email = email

\* units of work that passed their existence check and will insert a row
PendingInserts ==
    Cardinality({r \in Reqs : \/ req[r].pc = "register_commit"
                              \/ req[r].pc = "admin_commit" /\ req[r].user = NoUser})

CanInsert == nextId + PendingInserts <= MaxUsers

\* the response to request rec; what the response does not carry (the
\* password, the fetched row) is dropped
Done(rec, status, detail) ==
    [rec EXCEPT !.pc = "done", !.status = status, !.detail = detail,
                !.password = "", !.uid = rec.user.id, !.user = NoUser]

\* slot r finishes with a response
Finish(r, response) ==
    /\ req' = [req EXCEPT ![r] = Idle]
    /\ resp' = response

TypeOK ==
    /\ DOMAIN users \subseteq 1..MaxUsers
    /\ nextId \in 1..(MaxUsers + 1)
    /\ now \in 0..MaxTime
    /\ DOMAIN req = Reqs
    /\ issuable \subseteq (1..MaxUsers) \X (0..MaxTime)
    /\ \A rt \in rotated : rt[2] \in 1..2

Init ==
    /\ users = <<>>
    /\ nextId = 1
    /\ now = 0
    /\ req = [r \in Reqs |-> Idle]
    /\ resp = Idle
    /\ issuable = {}
    /\ rotated = {}

\* the clock advances
Tick ==
    /\ resp = Idle
    /\ now < MaxTime
    /\ now' = now + 1
    /\ issuable' = issuable \cup {<<i, now + 1>> : i \in DOMAIN users}
    /\ UNCHANGED <<users, nextId, req, resp, rotated>>

\* ------------------------------------------------------- register_user
\* what register_user answers a signup of email over the rows of the users
\* table: the 400 of a known email, or the 201 of the account it creates
SignupAnswer(rows, email) ==
    IF {i \in DOMAIN rows : rows[i].email = email} /= {}
    THEN [status |-> 400, detail |-> "Email already registered"]
    ELSE [status |-> 201, detail |-> ""]

\* SELECT by email, the 400 of a known email, the code and its expiry
RegisterCheck(r, email, password, code) ==
    /\ Free(r)
    /\ LET rec == [Idle EXCEPT !.op = "signup", !.email = email,
                               !.password = password, !.code = code]
       IN IF ByEmail(email) /= {}
          THEN /\ resp' = Done(rec, 400, "Email already registered")
               /\ UNCHANGED req
          ELSE /\ CanInsert
               /\ req' = [req EXCEPT ![r] =
                    [rec EXCEPT !.pc = "register_commit",
                                !.expires_at = now + VERIFICATION_CODE_EXPIRE_HOURS]]
               /\ UNCHANGED resp
    /\ UNCHANGED <<users, nextId, now, issuable, rotated>>

\* len(password) of the passwords a request can carry
StrLen(password) ==
    CASE password = "Passw0r" -> 7
      [] password = "Passw0rd" -> 8
      [] password = "Passw0rd1" -> 9
      [] password = "Wr0ngPass" -> 9

\* Field(..., min_length=8)
PASSWORD_MIN_LENGTH == 8

SignupRequestValid_NoMinLength(password) == TRUE

\* the validation of the SignupRequest body
SignupRequestValid(password) == StrLen(password) >= PASSWORD_MIN_LENGTH

\* POST /auth/signup: the body is validated, then register_user runs; the
\* 422 of a rejected body repeats the input
signup(r, email, password, code) ==
    IF SignupRequestValid(password)
    THEN RegisterCheck(r, email, password, code)
    ELSE /\ Free(r)
         /\ resp' = [Done(Idle, 422, "String should have at least 8 characters") EXCEPT
                       !.op = "signup", !.email = email, !.password = password]
         /\ UNCHANGED <<users, nextId, now, req, issuable, rotated>>

new_user_Verified(email, password, verification_code, expires_at, t) ==
    [email |-> email,
     hashed_password |-> hash_password(password),
     role |-> USER,
     is_verified |-> TRUE,
     verification_code |-> None,
     verification_code_expires_at |-> NoTime,
     created_at |-> t]

\* User(...) as register_user builds it; created_at is the server default
new_user(email, password, verification_code, expires_at, t) ==
    [email |-> email,
     hashed_password |-> hash_password(password),
     role |-> USER,
     is_verified |-> FALSE,
     verification_code |-> hash_password(verification_code),
     verification_code_expires_at |-> expires_at,
     created_at |-> t]

\* the TokenResponse register_user returns, with the code in scope
register_reply(verification_code, access_token, refresh_token) ==
    [access_token |-> access_token, refresh_token |-> refresh_token,
     token_type |-> "bearer"]

\* db.add, db.commit, and the token pair of the new id, which is the id the
\* store assigned; next is the store's counter after the insert
RegisterInsert(r, id, next) ==
    /\ At(r, "register_commit")
    /\ IF UniqueViolation(0, req[r].email)
       THEN /\ Finish(r, Done(req[r], 500, "Internal Server Error"))
            /\ UNCHANGED <<users, nextId, issuable, rotated>>
       ELSE LET row == new_user(req[r].email, req[r].password, req[r].code,
                                req[r].expires_at, now)
                data == [sub |-> Str(id)]
                reply == register_reply(req[r].code, create_access_token(data, now),
                                        create_refresh_token(data, now))
            IN /\ users' = (id :> row) @@ users
               /\ nextId' = next
               /\ issuable' = issuable \cup {<<id, now>>}
               /\ Finish(r, [Done(req[r], 201, "") EXCEPT
                                !.target = id,
                                !.access_token = reply.access_token,
                                !.refresh_token = reply.refresh_token])
    /\ UNCHANGED <<now, rotated>>

\* register_user on a store that draws the primary key from a sequence
RegisterCommit(r) == RegisterInsert(r, nextId, nextId + 1)

\* the primary key of a store that assigns the largest id in the table plus
\* one (id = Column(Integer, primary_key=True) on SQLite: a rowid alias)
rowid(rows) ==
    IF DOMAIN rows = {} THEN 1
    ELSE (CHOOSE m \in DOMAIN rows : \A j \in DOMAIN rows : j <= m) + 1

\* register_user on such a store
RegisterCommitRowid(r) ==
    /\ rowid(users) <= MaxUsers
    /\ RegisterInsert(r, rowid(users), nextId)

\* ----------------------------------------------------------- login_user
LoginFailure_NamesUnknownEmail(found) ==
    IF found = {} THEN [status |-> 404, detail |-> "User not found"]
    ELSE [status |-> 401, detail |-> "Incorrect email or password"]

\* the HTTPException of failed credentials
LoginFailure(found) == [status |-> 401, detail |-> "Incorrect email or password"]

login_user_VerifiedOnly(rows, email, password) ==
    LET rec == [Idle EXCEPT !.op = "login", !.email = email]
        found == {i \in DOMAIN rows : rows[i].email = email /\ rows[i].is_verified}
    IN IF \/ found = {}
          \/ \A i \in found : ~verify_password(password, rows[i].hashed_password)
       THEN [Done(rec, 401, "Incorrect email or password") EXCEPT !.password = password]
       ELSE LET i == CHOOSE i \in found : TRUE
                data == [sub |-> Str(i)]
            IN [Done([rec EXCEPT !.user = [id |-> i] @@ rows[i]], 200, "") EXCEPT
                   !.password = password,
                   !.access_token = create_access_token(data, now),
                   !.refresh_token = create_refresh_token(data, now)]

\* the answer of login_user over the rows of the users table; the response
\* record keeps the submitted password next to the answer
login_user(rows, email, password) ==
    LET rec == [Idle EXCEPT !.op = "login", !.email = email]
        found == {i \in DOMAIN rows : rows[i].email = email}
    IN IF \/ found = {}
          \/ \A i \in found : ~verify_password(password, rows[i].hashed_password)
       THEN [Done(rec, LoginFailure(found).status, LoginFailure(found).detail)
                EXCEPT !.password = password]
       ELSE LET i == CHOOSE i \in found : TRUE
                data == [sub |-> Str(i)]
            IN [Done([rec EXCEPT !.user = [id |-> i] @@ rows[i]], 200, "") EXCEPT
                   !.password = password,
                   !.access_token = create_access_token(data, now),
                   !.refresh_token = create_refresh_token(data, now)]

Login_MarksVerified(email, password) ==
    /\ resp = Idle
    /\ resp' = login_user(users, email, password)
    /\ users' = [i \in DOMAIN users |->
                    IF resp'.status = 200 /\ i = resp'.uid
                    THEN [users[i] EXCEPT !.is_verified = TRUE]
                    ELSE users[i]]
    /\ UNCHANGED <<nextId, now, req, issuable, rotated>>

\* POST /auth/login: a SELECT and two tokens; nothing is written
Login(email, password) ==
    /\ resp = Idle
    /\ resp' = login_user(users, email, password)
    /\ UNCHANGED <<users, nextId, now, req, issuable, rotated>>

\* -------------------------------------------------- refresh_access_token
RefreshKindOk_AnyKind(payload) == TRUE

\* payload.get("type") != "refresh" raises 401
RefreshKindOk(payload) == Get(payload, "type") = "refresh"

refresh_access_token(token) ==
    LET rec == [Idle EXCEPT !.op = "refresh", !.token = token]
        payload == decode_token(token)
    IN IF DecodeFails(token, now)
       THEN Done(rec, 401, "Invalid or expired refresh token")
       ELSE IF ~RefreshKindOk(payload)
       THEN Done(rec, 401, "Invalid token type")
       ELSE IF Get(payload, "sub") = None
       THEN Done(rec, 401, "Invalid token")
       ELSE LET user_id == ParseInt(payload.sub)
            IN IF user_id \notin DOMAIN users
               THEN Done(rec, 404, "User not found")
               ELSE LET data == [sub |-> Str(user_id)]
                    IN [Done([rec EXCEPT !.user = Row(user_id)], 200, "") EXCEPT
                           !.access_token = create_access_token(data, now),
                           !.refresh_token = create_refresh_token(data, now)]

RefreshResponse_Revoking(token) ==
    IF <<token, 1>> \in rotated
    THEN Done([Idle EXCEPT !.op = "refresh", !.token = token], 401,
              "Invalid or expired refresh token")
    ELSE refresh_access_token(token)

\* POST /auth/refresh: the answer of refresh_access_token
RefreshResponse(token) == refresh_access_token(token)

Refresh(token) ==
    /\ resp = Idle
    /\ resp' = RefreshResponse(token)
    /\ UNCHANGED <<users, nextId, now, req, issuable, rotated>>

\* the same request, with the rotation entered in the history
RefreshRecorded(token) ==
    /\ resp = Idle
    /\ resp' = RefreshResponse(token)
    /\ rotated' = IF resp'.status /= 200 THEN rotated
                  ELSE IF <<token, 1>> \in rotated THEN rotated \cup {<<token, 2>>}
                  ELSE rotated \cup {<<token, 1>>}
    /\ UNCHANGED <<users, nextId, now, req, issuable>>

\* ------------------------------------------------------ get_current_user
get_current_user_MissingUser401(token) ==
    LET payload == decode_token(token)
    IN IF DecodeFails(token, now) \/ Get(payload, "sub") = None
       THEN [status |-> 401, detail |-> "Could not validate credentials", user |-> NoUser]
       ELSE LET user_id == ParseInt(payload.sub)
            IN IF user_id \notin DOMAIN users
               THEN [status |-> 401, detail |-> "Could not validate credentials", user |-> NoUser]
               ELSE [status |-> 200, detail |-> "", user |-> Row(user_id)]

\* the bearer token decoded and the row of its subject fetched; the kind
\* marker of the payload is not read
get_current_user(token) ==
    LET payload == decode_token(token)
    IN IF DecodeFails(token, now)
       THEN [status |-> 401, detail |-> "Could not validate credentials", user |-> NoUser]
       ELSE IF Get(payload, "sub") = None
       THEN [status |-> 401, detail |-> "Could not validate credentials", user |-> NoUser]
       ELSE LET user_id == ParseInt(payload.sub)
            IN IF user_id \notin DOMAIN users
               THEN [status |-> 404, detail |-> "User not found", user |-> NoUser]
               ELSE [status |-> 200, detail |-> "", user |-> Row(user_id)]

require_admin_AnyRole(current_user) == TRUE

\* require_admin on the user get_current_user returned
require_admin(current_user) == current_user.role = ADMIN

\* a request behind Depends(get_current_user): rejected, or handed to its
\* handler at position pc with the fetched user
Authenticated(r, rec, pc) ==
    LET auth == get_current_user(rec.token)
    IN /\ Free(r)
       /\ IF auth.status /= 200
          THEN /\ resp' = Done(rec, auth.status, auth.detail)
               /\ UNCHANGED req
          ELSE /\ req' = [req EXCEPT ![r] =
                    [rec EXCEPT !.pc = pc, !.user = auth.user, !.token = NoToken]]
               /\ UNCHANGED resp
       /\ UNCHANGED <<users, nextId, now, issuable, rotated>>

\* a request behind Depends(require_admin)
AdminAuthenticated(r, rec, pc) ==
    LET auth == get_current_user(rec.token)
    IN /\ Free(r)
       /\ IF auth.status /= 200
          THEN /\ resp' = Done(rec, auth.status, auth.detail)
               /\ UNCHANGED req
          ELSE IF ~require_admin(auth.user)
          THEN /\ resp' = Done([rec EXCEPT !.user = auth.user], 403, "Admin access required")
               /\ UNCHANGED req
          ELSE /\ req' = [req EXCEPT ![r] =
                    [rec EXCEPT !.pc = pc, !.token = NoToken, !.uid = auth.user.id]]
               /\ UNCHANGED resp
       /\ UNCHANGED <<users, nextId, now, issuable, rotated>>

\* GET /users/me
Me(token) ==
    /\ resp = Idle
    /\ LET rec == [Idle EXCEPT !.op = "me", !.token = token]
           auth == get_current_user(token)
       IN resp' = Done([rec EXCEPT !.user = auth.user], auth.status, auth.detail)
    /\ UNCHANGED <<users, nextId, now, req, issuable, rotated>>

\* ---------------------------------------------------------- verify_email
BeginVerify(r, token, code) ==
    Authenticated(r, [Idle EXCEPT !.op = "verify", !.token = token, !.code = code], "verify")

CodeExpired_AtExpiry(expires_at, t) == expires_at <= t

\* expires_at < datetime.now(timezone.utc)
CodeExpired(expires_at, t) == expires_at < t

Verified_AlsoAdmin(row) ==
    [row EXCEPT !.is_verified = TRUE, !.verification_code = None,
                !.verification_code_expires_at = NoTime, !.role = ADMIN]

Verified_KeepsExpiry(row) ==
    [row EXCEPT !.is_verified = TRUE, !.verification_code = None]

\* the three assignments of a successful verification
Verified(row) ==
    [row EXCEPT !.is_verified = TRUE,
                !.verification_code = None,
                !.verification_code_expires_at = NoTime]

\* the response of verify_email, with the row it was decided on
VerifyDone(rec, status, detail) == [Done(rec, status, detail) EXCEPT !.user = rec.user]

verify_email_error_CodeFirst(user, code, t) ==
    IF user.is_verified
    THEN "Email already verified"
    ELSE IF user.verification_code = None
    THEN "No verification code found. Please request a new one."
    ELSE IF ~verify_password(code, user.verification_code)
    THEN "Invalid verification code"
    ELSE IF /\ user.verification_code_expires_at /= NoTime
            /\ CodeExpired(user.verification_code_expires_at, t)
    THEN "Verification code expired. Please request a new one."
    ELSE ""

\* the detail of the HTTPException verify_email raises on the row it was
\* handed, "" when it raises none
verify_email_error(user, code, t) ==
    IF user.is_verified
    THEN "Email already verified"
    ELSE IF user.verification_code = None
    THEN "No verification code found. Please request a new one."
    ELSE IF /\ user.verification_code_expires_at /= NoTime
            /\ CodeExpired(user.verification_code_expires_at, t)
    THEN "Verification code expired. Please request a new one."
    ELSE IF ~verify_password(code, user.verification_code)
    THEN "Invalid verification code"
    ELSE ""

VerifyEmail(r) ==
    /\ At(r, "verify")
    /\ LET user == req[r].user
           error == verify_email_error(user, req[r].code, now)
       IN IF error /= ""
          THEN /\ Finish(r, VerifyDone(req[r], 400, error))
               /\ UNCHANGED users
          ELSE IF user.id \notin DOMAIN users
          THEN \* the UPDATE matches no row: StaleDataError
               /\ Finish(r, VerifyDone(req[r], 500, "Internal Server Error"))
               /\ UNCHANGED users
          ELSE /\ users' = [users EXCEPT ![user.id] = Verified(@)]
               /\ Finish(r, VerifyDone(req[r], 200, "Email verified successfully"))
    /\ UNCHANGED <<nextId, now, issuable, rotated>>

\* ---------------------------------------------- resend_verification_code
BeginResend(r, token) ==
    Authenticated(r, [Idle EXCEPT !.op = "resend", !.token = token], "resend")

Reissued_TouchesCreated(row, code, expires_at) ==
    [row EXCEPT !.verification_code = hash_password(code),
                !.verification_code_expires_at = expires_at,
                !.created_at = expires_at]

Reissued_KeepsExpiry(row, code, expires_at) ==
    [row EXCEPT !.verification_code = hash_password(code)]

Reissued_KeepsCode(row, code, expires_at) ==
    [row EXCEPT !.verification_code_expires_at = expires_at]

\* the two assignments of a resend
Reissued(row, code, expires_at) ==
    [row EXCEPT !.verification_code = hash_password(code),
                !.verification_code_expires_at = expires_at]

resend_reply_WithCode(verification_code, expires_at) ==
    [message |-> verification_code, expires_at |-> expires_at]

\* the dict resend_verification_code returns, with the code in scope
resend_reply(verification_code, expires_at) ==
    [message |-> "New verification code sent", expires_at |-> expires_at]

ResendCode(r, code) ==
    /\ At(r, "resend")
    /\ LET user == req[r].user
           expires_at == now + VERIFICATION_CODE_EXPIRE_HOURS
           reply == resend_reply(code, expires_at)
           rec == [req[r] EXCEPT !.code = code, !.expires_at = reply.expires_at]
       IN IF user.is_verified
          THEN /\ Finish(r, Done(req[r], 400, "Email already verified"))
               /\ UNCHANGED users
          ELSE IF user.id \notin DOMAIN users
          THEN /\ Finish(r, Done(rec, 500, "Internal Server Error"))
               /\ UNCHANGED users
          ELSE /\ users' = [users EXCEPT ![user.id] = Reissued(@, code, expires_at)]
               /\ Finish(r, Done(rec, 200, reply.message))
    /\ UNCHANGED <<nextId, now, issuable, rotated>>

\* ----------------------------------------------------------- update_user
UpdateDicts_WithRole ==
    {EmptyDict, [first_name |-> "Jane"], [role |-> ADMIN]}
        \cup {[email |-> e] : e \in Emails}

UpdateDicts_WithVerified ==
    {EmptyDict, [first_name |-> "Jane"], [is_verified |-> FALSE]}
        \cup {[email |-> e] : e \in Emails}

\* the bodies PATCH /users/{id} accepts: UserUpdate has first_name,
\* last_name and email only
UpdateDicts == {EmptyDict, [first_name |-> "Jane"]} \cup {[email |-> e] : e \in Emails}

BeginPatch(r, token, target, update_dict) ==
    AdminAuthenticated(r, [Idle EXCEPT !.op = "patch", !.token = token, !.target = target,
                                       !.update_dict = update_dict], "patch_check")

\* SELECT ... WHERE email = :email AND id != :user_id
EmailInUse(user_id, email) == \E i \in DOMAIN users : i /= user_id /\ users[i].email = email

\* for field, value in update_dict.items(): setattr(user, field, value)
SetAttrs(row, update_dict) ==
    [f \in DOMAIN row |-> IF f \in DOMAIN update_dict THEN update_dict[f] ELSE row[f]]

\* SELECT the target, the empty body, SELECT another row with the email
UpdateUserCheck(r) ==
    /\ At(r, "patch_check")
    /\ LET update_dict == req[r].update_dict
       IN IF req[r].target \notin DOMAIN users
          THEN Finish(r, Done(req[r], 404, "User not found"))
          ELSE IF DOMAIN update_dict = {}
          THEN Finish(r, Done(req[r], 400, "No fields provided for update"))
          ELSE IF /\ "email" \in DOMAIN update_dict
                  /\ EmailInUse(req[r].target, update_dict.email)
          THEN Finish(r, Done(req[r], 400, "Email already in use"))
          ELSE /\ req' = [req EXCEPT ![r].pc = "patch_commit"]
               /\ UNCHANGED resp
    /\ UNCHANGED <<users, nextId, now, issuable, rotated>>

\* setattr for each field, db.commit
UpdateUserCommit(r) ==
    /\ At(r, "patch_commit")
    /\ LET update_dict == req[r].update_dict
           target == req[r].target
       IN IF target \notin DOMAIN users
          THEN /\ Finish(r, Done(req[r], 500, "Internal Server Error"))
               /\ UNCHANGED users
          ELSE IF /\ "email" \in DOMAIN update_dict
                  /\ UniqueViolation(target, update_dict.email)
          THEN /\ Finish(r, Done(req[r], 500, "Internal Server Error"))
               /\ UNCHANGED users
          ELSE /\ users' = [users EXCEPT ![target] = SetAttrs(@, update_dict)]
               /\ Finish(r, Done(req[r], 200, ""))
    /\ UNCHANGED <<nextId, now, issuable, rotated>>

\* ------------------------------------------- get_all_users, get_user_by_id
BeginList(r, token) ==
    AdminAuthenticated(r, [Idle EXCEPT !.op = "list", !.token = token], "list")

\* SELECT every row; the response lists them
ListUsers(r) ==
    /\ At(r, "list")
    /\ Finish(r, [Done(req[r], 200, "") EXCEPT
                     !.ids = DOMAIN users,
                     !.emails = {users[i].email : i \in DOMAIN users}])
    /\ UNCHANGED <<users, nextId, now, issuable, rotated>>

BeginGet(r, token, target) ==
    AdminAuthenticated(r, [Idle EXCEPT !.op = "get", !.token = token, !.target = target],
                       "get")

\* SELECT the row of the id; 404 when there is none
GetUser(r) ==
    /\ At(r, "get")
    /\ IF req[r].target \notin DOMAIN users
       THEN Finish(r, Done(req[r], 404, "User not found"))
       ELSE Finish(r, [Done(req[r], 200, "") EXCEPT
                         !.ids = {req[r].target},
                         !.emails = {users[req[r].target].email}])
    /\ UNCHANGED <<users, nextId, now, issuable, rotated>>

\* ----------------------------------------------------------- delete_user
BeginDelete(r, token, target) ==
    AdminAuthenticated(r, [Idle EXCEPT !.op = "delete", !.token = token, !.target = target],
                       "delete")

DeleteUser(r) ==
    /\ At(r, "delete")
    /\ IF req[r].target \notin DOMAIN users
       THEN /\ Finish(r, Done(req[r], 404, "User not found"))
            /\ UNCHANGED users
       ELSE /\ users' = [i \in DOMAIN users \ {req[r].target} |-> users[i]]
            /\ Finish(r, Done(req[r], 200, "deleted successfully"))
    /\ UNCHANGED <<nextId, now, issuable, rotated>>

\* ------------------------------------------------------ create_admin_user
\* SELECT by email; an admin of that email ends the script
CreateAdminCheck(r, email, password) ==
    /\ Free(r)
    /\ LET rec == [Idle EXCEPT !.op = "create_admin", !.email = email, !.password = password]
           found == ByEmail(email)
       IN IF found = {}
          THEN /\ CanInsert
               /\ req' = [req EXCEPT ![r] = [rec EXCEPT !.pc = "admin_commit"]]
               /\ UNCHANGED resp
          ELSE \E i \in found :
                 IF users[i].role = ADMIN
                 THEN /\ resp' = Done([rec EXCEPT !.user = Row(i)], 0,
                                      "already exists and is an admin")
                      /\ UNCHANGED req
                 ELSE /\ req' = [req EXCEPT ![r] =
                            [rec EXCEPT !.pc = "admin_commit", !.user = Row(i)]]
                      /\ UNCHANGED resp
    /\ UNCHANGED <<users, nextId, now, issuable, rotated>>

\* the promotion of the row found, or the insert of a verified admin
CreateAdminCommit(r) ==
    /\ At(r, "admin_commit")
    /\ LET existing_user == req[r].user
       IN IF existing_user /= NoUser
          THEN IF existing_user.id \notin DOMAIN users
               THEN /\ Finish(r, Done(req[r], 1, "Failed to create admin"))
                    /\ UNCHANGED <<users, nextId, issuable, rotated>>
               ELSE /\ users' = [users EXCEPT ![existing_user.id] =
                         [@ EXCEPT !.role = ADMIN, !.is_verified = TRUE]]
                    /\ Finish(r, Done(req[r], 0, "promoted to admin"))
                    /\ UNCHANGED <<nextId, issuable, rotated>>
          ELSE IF UniqueViolation(0, req[r].email)
               THEN /\ Finish(r, Done(req[r], 1, "Failed to create admin"))
                    /\ UNCHANGED <<users, nextId, issuable, rotated>>
               ELSE LET admin_user ==
                            [email |-> req[r].email,
                             hashed_password |-> hash_password(req[r].password),
                             role |-> ADMIN,
                             is_verified |-> TRUE,
                             verification_code |-> None,
                             verification_code_expires_at |-> NoTime,
                             created_at |-> now]
                    IN /\ users' = (nextId :> admin_user) @@ users
                       /\ nextId' = nextId + 1
                       /\ issuable' = issuable \cup {<<nextId, now>>}
                       /\ Finish(r, [Done(req[r], 0, "Admin user created") EXCEPT
                                        !.target = nextId])
    /\ UNCHANGED <<now, rotated>>

\* ----------------------------------------------------- _cleanup_unverified
users_to_delete_AtCutoffOnly(rows, cutoff_date) ==
    {i \in DOMAIN rows : /\ rows[i].is_verified = FALSE
                         /\ rows[i].created_at = cutoff_date}

\* select(User).where(User.is_verified == False, User.created_at < cutoff_date)
users_to_delete(rows, cutoff_date) ==
    {i \in DOMAIN rows : /\ rows[i].is_verified = FALSE
                         /\ rows[i].created_at < cutoff_date}

CleanupSelect_NoEarlyReturn(r) ==
    /\ Free(r)
    /\ LET cutoff_date == now - UNVERIFIED_USER_DELETE_DAYS
           valid_deletions == {i \in users_to_delete(users, cutoff_date) :
                                  users[i].created_at < cutoff_date}
       IN req' = [req EXCEPT ![r] =
                    [Idle EXCEPT !.op = "cleanup", !.pc = "cleanup_delete",
                                 !.cutoff_date = cutoff_date,
                                 !.ids = valid_deletions,
                                 !.emails = {users[i].email : i \in valid_deletions}]]
    /\ UNCHANGED <<users, nextId, now, resp, issuable, rotated>>

\* the cutoff, the SELECT of the unverified rows created before it, the
\* in-memory filter, and the zero report of an empty selection
CleanupSelect(r) ==
    /\ Free(r)
    /\ LET cutoff_date == now - UNVERIFIED_USER_DELETE_DAYS
           valid_deletions == {i \in users_to_delete(users, cutoff_date) :
                                  users[i].created_at < cutoff_date}
           rec == [Idle EXCEPT !.op = "cleanup"]
       IN IF valid_deletions = {}
          THEN /\ resp' = Done(rec, 0, "report")
               /\ UNCHANGED req
          ELSE /\ req' = [req EXCEPT ![r] =
                    [rec EXCEPT !.pc = "cleanup_delete",
                                !.cutoff_date = cutoff_date,
                                !.ids = valid_deletions,
                                !.emails = {users[i].email : i \in valid_deletions}]]
               /\ UNCHANGED resp
    /\ UNCHANGED <<users, nextId, now, issuable, rotated>>

BulkDelete_Uncommitted(rows, user_ids) == rows

\* delete(User).where(User.id.in_(user_ids)) and the commit
BulkDelete(rows, user_ids) == [i \in DOMAIN rows \ user_ids |-> rows[i]]

\* DELETE ... WHERE id IN (user_ids), commit, the report
CleanupDelete(r) ==
    /\ At(r, "cleanup_delete")
    /\ users' = BulkDelete(users, req[r].ids)
    /\ Finish(r, Done(req[r], Cardinality(req[r].ids), "report"))
    /\ UNCHANGED <<nextId, now, issuable, rotated>>

\* ------------------------------------------------------------------ get_db
\* the handler of the request in flight gets as far as its db.commit()
ReachesCommit(rec) ==
    \/ rec.pc = "register_commit"
    \/ rec.pc = "verify" /\ rec.user.id \in DOMAIN users
                         /\ verify_email_error(rec.user, rec.code, now) = ""
    \/ rec.pc = "resend" /\ rec.user.id \in DOMAIN users /\ ~rec.user.is_verified
    \/ rec.pc = "patch_commit" /\ rec.target \in DOMAIN users
    \/ rec.pc = "delete" /\ rec.target \in DOMAIN users

\* the table as the commit of the request in flight would leave it; a
\* request whose handler raises before its commit has nothing pending
Pending(rec) ==
    CASE rec.pc = "register_commit" ->
            (nextId :> new_user(rec.email, rec.password, rec.code, rec.expires_at, now))
                @@ users
      [] rec.pc = "verify" /\ rec.user.id \in DOMAIN users
                           /\ verify_email_error(rec.user, rec.code, now) = "" ->
            [users EXCEPT ![rec.user.id] = Verified(@)]
      [] rec.pc = "resend" /\ rec.user.id \in DOMAIN users /\ ~rec.user.is_verified ->
            [users EXCEPT ![rec.user.id] =
                Reissued(@, "000000", now + VERIFICATION_CODE_EXPIRE_HOURS)]
      [] rec.pc = "patch_commit" /\ rec.target \in DOMAIN users ->
            [users EXCEPT ![rec.target] = SetAttrs(@, rec.update_dict)]
      [] rec.pc = "delete" /\ rec.target \in DOMAIN users ->
            [i \in DOMAIN users \ {rec.target} |-> users[i]]
      [] OTHER -> users

get_db_rollback_KeepsPending(rows, pending) == pending

\* await session.rollback() in get_db's except clause: the rows as committed
\* before the request's write; what the session had pending is dropped
get_db_rollback(rows, pending) == rows

\* the store fails at the commit of the request in slot r: the exception
\* passes through get_db and the request is answered 500
CommitFails(r) ==
    /\ resp = Idle
    /\ ReachesCommit(req[r])
    /\ users' = get_db_rollback(users, Pending(req[r]))
    /\ Finish(r, Done(req[r], 500, "Internal Server Error"))
    /\ UNCHANGED <<nextId, now, issuable, rotated>>

session_rollback_KeepsPending(rows, pending) == pending

\* session.rollback() in the except clause: the rows as committed before
\* the run; what the transaction had pending is dropped
session_rollback(rows, pending) == rows

\* the exception the task re-raises: no report
Raised(rec) == [Done(rec, -1, "raise") EXCEPT !.ids = {}, !.emails = {},
                                               !.cutoff_date = NoTime]

\* the store fails at the SELECT
CleanupSelectFails(r) ==
    /\ Free(r)
    /\ users' = session_rollback(users, users)
    /\ resp' = Raised([Idle EXCEPT !.op = "cleanup"])
    /\ UNCHANGED <<nextId, now, req, issuable, rotated>>

\* the store fails at the DELETE or at the commit
CleanupDeleteFails(r) ==
    /\ At(r, "cleanup_delete")
    /\ users' = session_rollback(users, BulkDelete(users, req[r].ids))
    /\ Finish(r, Raised(req[r]))
    /\ UNCHANGED <<nextId, now, issuable, rotated>>

\* ---------------------------------------------------------------- steps
\* the caller takes the response
Deliver ==
    /\ resp /= Idle
    /\ resp' = Idle
    /\ UNCHANGED <<users, nextId, now, req, issuable, rotated>>

Signup(E) ==
    \/ \E r \in Reqs, email \in E, password \in SignupPasswords, code \in DrawnCodes :
         RegisterCheck(r, email, password, code)
    \/ \E r \in Reqs : RegisterCommit(r)

\* signups with a password of 7 and of 8 characters
RoutePasswords == {"Passw0r", "Passw0rd"}

SignupRoute(E) ==
    \/ \E r \in Reqs, email \in E, password \in RoutePasswords, code \in DrawnCodes :
         signup(r, email, password, code)
    \/ \E r \in Reqs : RegisterCommit(r)

CreateAdmin(E) ==
    \/ \E r \in Reqs, email \in E, password \in SignupPasswords :
         CreateAdminCheck(r, email, password)
    \/ \E r \in Reqs : CreateAdminCommit(r)

Session(E) ==
    \/ \E email \in E, password \in LoginPasswords : Login(email, password)
    \/ \E token \in HeldTokens : Refresh(token)
    \/ \E token \in HeldTokens : Me(token)

Verification ==
    \/ \E r \in Reqs, token \in HeldTokens, code \in Codes : BeginVerify(r, token, code)
    \/ \E r \in Reqs : VerifyEmail(r)
    \/ \E r \in Reqs, token \in HeldTokens : BeginResend(r, token)
    \/ \E r \in Reqs, code \in DrawnCodes : ResendCode(r, code)

Patch ==
    \/ \E r \in Reqs, token \in HeldTokens, target \in 1..MaxUsers, update_dict \in UpdateDicts :
         BeginPatch(r, token, target, update_dict)
    \/ \E r \in Reqs : UpdateUserCheck(r)
    \/ \E r \in Reqs : UpdateUserCommit(r)

Delete ==
    \/ \E r \in Reqs, token \in HeldTokens, target \in 1..MaxUsers : BeginDelete(r, token, target)
    \/ \E r \in Reqs : DeleteUser(r)

AdminReads ==
    \/ \E r \in Reqs, token \in HeldTokens : BeginList(r, token)
    \/ \E r \in Reqs : ListUsers(r)
    \/ \E r \in Reqs, token \in HeldTokens, target \in 1..MaxUsers : BeginGet(r, token, target)
    \/ \E r \in Reqs : GetUser(r)

Cleanup ==
    \/ \E r \in Reqs : CleanupSelect(r)
    \/ \E r \in Reqs : CleanupDelete(r)

\* signup and the session operations, as the clock advances
NextSession == Deliver \/ Tick \/ Signup(Emails) \/ Session(Emails)
SpecSession == Init /\ [][NextSession]_vars

\* the requests and the script that write the email, role and verification
\* columns, with login and refresh, at one clock reading
NextStore ==
    \/ Deliver
    \/ Signup(Emails)
    \/ Verification
    \/ CreateAdmin(Emails)
    \/ Patch
    \/ \E email \in Emails, password \in LoginPasswords : Login(email, password)
    \/ \E token \in HeldTokens : Refresh(token)
SpecStore == Init /\ [][NextStore]_vars

\* signup and verification of one email, as the clock advances
NextCode == Deliver \/ Tick \/ Signup({"a@x"}) \/ Verification
SpecCode == Init /\ [][NextCode]_vars

\* a resend that draws any of the six-digit codes
Reissue == \E r \in Reqs, code \in Codes : ResendCode(r, code)

\* the session operations with the history of rotations
Rotation ==
    \/ \E token \in HeldTokens : RefreshRecorded(token)
    \/ \E token \in HeldTokens : Me(token)

\* a verification with the code that was drawn
Verify ==
    \/ \E r \in Reqs, token \in HeldTokens, code \in DrawnCodes : BeginVerify(r, token, code)
    \/ \E r \in Reqs : VerifyEmail(r)

\* the cleanup task beside signup, verification and the create_admin
\* script, as the clock advances
NextReaper ==
    Deliver \/ Tick \/ Signup(Emails) \/ Verify \/ CreateAdmin({"a@x"}) \/ Cleanup
SpecReaper == Init /\ [][NextReaper]_vars

\* signup of one email, the cleanup task and the token operations, as the
\* clock advances
NextRotation == Deliver \/ Tick \/ Signup({"a@x"}) \/ Cleanup \/ Rotation
SpecRotation == Init /\ [][NextRotation]_vars

\* signup and verification of one email with codes drawn again, as the clock
\* advances
NextResend == Deliver \/ Tick \/ Signup({"a@x"}) \/ Verification \/ Reissue
SpecResend == Init /\ [][NextResend]_vars

\* the admin routes, called by the account of a signup and by the admin the
\* script created, at one clock reading
NextAdmin ==
    Deliver \/ Signup({"a@x"}) \/ CreateAdmin({"b@x"}) \/ Verify
        \/ AdminReads \/ Patch \/ Delete
SpecAdmin == Init /\ [][NextAdmin]_vars

\* the routes behind get_current_user, called with the tokens a client holds
\* and with a token that has no subject
Bearer ==
    \/ \E token \in HeldTokens \cup SubjectlessTokens : Me(token)
    \/ \E r \in Reqs, token \in HeldTokens \cup SubjectlessTokens, code \in DrawnCodes :
         BeginVerify(r, token, code)
    \/ \E r \in Reqs : VerifyEmail(r)

\* signup of one email, the cleanup task and the bearer routes, as the clock
\* advances
NextBearer == Deliver \/ Tick \/ Signup({"a@x"}) \/ Cleanup \/ Bearer
SpecBearer == Init /\ [][NextBearer]_vars

\* the signup route with passwords on both sides of the minimum length, as
\* the clock advances
NextSignup == Deliver \/ Tick \/ SignupRoute(Emails)
SpecSignup == Init /\ [][NextSignup]_vars

\* signup and verification of one email and the cleanup task, as the clock
\* advances; the beat schedule starts a run every day whatever the API is
\* doing, every handler and every run that started finishes, every response
\* is taken and the clock does not stop before MaxTime
NextSchedule == Deliver \/ Tick \/ Signup({"a@x"}) \/ Verify \/ Cleanup
SpecSchedule ==
    /\ Init /\ [][NextSchedule]_vars
    /\ WF_vars(Deliver)
    /\ SF_vars(Tick)
    /\ SF_vars(\E r \in Reqs : CleanupSelect(r))
    /\ SF_vars(\E r \in Reqs : CleanupDelete(r))
    /\ SF_vars(\E r \in Reqs : RegisterCommit(r))
    /\ SF_vars(\E r \in Reqs : VerifyEmail(r))

\* a resend with the code that was drawn
ResendOnly ==
    \/ \E r \in Reqs, token \in HeldTokens : BeginResend(r, token)
    \/ \E r \in Reqs, code \in DrawnCodes : ResendCode(r, code)

\* an admin patch of the first name
PatchName ==
    \/ \E r \in Reqs, token \in HeldTokens, target \in 1..MaxUsers :
         BeginPatch(r, token, target, [first_name |-> "Jane"])
    \/ \E r \in Reqs : UpdateUserCheck(r)
    \/ \E r \in Reqs : UpdateUserCommit(r)

\* every operation that writes a row of an existing account: verification
\* and resend, the admin patch and the promotion by create_admin, beside the
\* signup of one email, as the clock advances
NextWrites ==
    Deliver \/ Tick \/ Signup({"a@x"}) \/ Verify \/ ResendOnly \/ CreateAdmin({"a@x"})
        \/ PatchName
SpecWrites == Init /\ [][NextWrites]_vars

CleanupFailure ==
    \/ \E r \in Reqs : CleanupSelectFails(r)
    \/ \E r \in Reqs : CleanupDeleteFails(r)

\* the cleanup task over a store that can fail, beside signups, as the clock
\* advances
NextOutage == Deliver \/ Tick \/ Signup(Emails) \/ Cleanup \/ CleanupFailure
SpecOutage == Init /\ [][NextOutage]_vars

\* every mutating request of the API over a store whose commits can fail;
\* the admin is the one the script created
NextFaults ==
    \/ Deliver
    \/ Signup({"a@x"})
    \/ CreateAdmin({"b@x"})
    \/ Verify
    \/ ResendOnly
    \/ Patch
    \/ Delete
    \/ \E r \in Reqs : CommitFails(r)
SpecFaults == Init /\ [][NextFaults]_vars

SignupRowid(E) ==
    \/ \E r \in Reqs, email \in E, password \in SignupPasswords, code \in DrawnCodes :
         RegisterCheck(r, email, password, code)
    \/ \E r \in Reqs : RegisterCommitRowid(r)

\* the token operations
Tokens ==
    \/ \E token \in HeldTokens : Refresh(token)
    \/ \E token \in HeldTokens : Me(token)

\* signup of one email on a store with rowid keys, the cleanup task and the
\* token operations, as the clock advances
NextIds == Deliver \/ Tick \/ SignupRowid({"a@x"}) \/ Cleanup \/ Tokens
SpecIds == Init /\ [][NextIds]_vars

\* signup, verification and resend of two emails at one clock reading, a
\* resend drawing any of the codes
NextPair == Deliver \/ Signup(Emails) \/ Verification \/ Reissue
SpecPair == Init /\ [][NextPair]_vars

\* ================================================================ claims
\* the kind marker of a token
KindOf(token) == Get(decode_token(token), "type")
\* the subject id a token carries
SubjectOf(token) == ParseInt(decode_token(token).sub)
\* the token is signed with the key and not expired now
ValidNow(token) == ~DecodeFails(token, now)

\* C1: a refresh token presented as the bearer credential of a request behind
\* get_current_user (here GET /users/me) never authenticates the caller.
C1_RefreshTokenNeverAuthenticates ==
    (resp.op = "me" /\ KindOf(resp.token) = "refresh") => resp.status /= 200

\* C2: refresh rejects with 401 every token whose kind marker is not
\* "refresh" (an access token in particular) and returns no tokens; it issues
\* a pair only for a token of kind "refresh".
C2_RefreshRejectsAccessToken ==
    resp.op = "refresh" =>
        /\ KindOf(resp.token) /= "refresh" =>
             /\ resp.status = 401
             /\ resp.access_token = NoToken
             /\ resp.refresh_token = NoToken
        /\ resp.status = 200 => KindOf(resp.token) = "refresh"

\* a valid, unexpired access token of an existing account was submitted to
\* refresh and answered 401 "Invalid token type"
C2_Witness ==
    /\ resp.op = "refresh"
    /\ ValidNow(resp.token)
    /\ "type" \notin DOMAIN decode_token(resp.token)
    /\ SubjectOf(resp.token) \in DOMAIN users
    /\ resp.status = 401
    /\ resp.detail = "Invalid token type"

\* C3: every successful refresh returns a refresh token that differs from the
\* one submitted and an access token that differs from the one issued with
\* the submitted refresh token, also within one clock instant.
C3_RefreshReturnsNewTokens ==
    (resp.op = "refresh" /\ resp.status = 200) =>
        LET held_access ==
                create_access_token([sub |-> decode_token(resp.token).sub],
                    decode_token(resp.token).exp - REFRESH_TOKEN_EXPIRE_DAYS)
        IN /\ resp.refresh_token /= resp.token
           /\ resp.access_token /= resp.token
           /\ resp.access_token /= held_access

\* no two rows of users have the same email
EmailUnique ==
    \A i, j \in DOMAIN users : i /= j => users[i].email /= users[j].email

\* the response reports a failure of the request or of the script
Rejected(response) ==
    /\ response.pc = "done"
    /\ \/ response.status >= 400
       \/ response.op = "create_admin" /\ response.status = 1

\* C4: no two accounts ever have the same email, under every interleaving of
\* signup, admin email patch and create_admin; a request or script that is
\* rejected leaves every account as it was.
C4_EmailsUnique ==
    [][EmailUnique' /\ (Rejected(resp') => users' = users)]_vars

\* the unique index rejected the commit of an email patch that had passed
\* its own check, while another account holds that email
C4_Witness ==
    /\ resp.op = "patch"
    /\ resp.status = 500
    /\ "email" \in DOMAIN resp.update_dict
    /\ resp.target \in DOMAIN users
    /\ EmailInUse(resp.target, resp.update_dict.email)
    /\ EmailUnique

\* C5: an account whose is_verified is true keeps it true in every later
\* state in which the account exists, whatever operation takes the step.
C5_VerifiedNeverReverts ==
    [][\A i \in DOMAIN users :
          (users[i].is_verified /\ i \in DOMAIN users') => users'[i].is_verified]_vars

\* resend_verification_code committed on an account that a concurrent
\* verification had already verified, and the account is still verified
C5_Witness ==
    /\ resp.op = "resend"
    /\ resp.status = 200
    /\ resp.uid \in DOMAIN users
    /\ users[resp.uid].is_verified

\* C6: every verified account has neither a verification code hash nor a
\* code expiry.
C6_VerifiedHasNoCode ==
    \A i \in DOMAIN users :
        users[i].is_verified =>
            /\ users[i].verification_code = None
            /\ users[i].verification_code_expires_at = NoTime

\* C7: for every account the code hash and the code expiry are both present
\* or both absent.
C7_CodeAndExpiryPaired ==
    \A i \in DOMAIN users :
        (users[i].verification_code = None)
            <=> (users[i].verification_code_expires_at = NoTime)

\* a verification succeeded and the account it verified has neither field
C7_Witness ==
    /\ resp.op = "verify"
    /\ resp.status = 200
    /\ resp.uid \in DOMAIN users
    /\ users[resp.uid].verification_code = None
    /\ users[resp.uid].verification_code_expires_at = NoTime

\* C8 as stated: verify_email, on the account the request fetched, succeeds
\* iff the code matches the stored hash, the time is strictly before the
\* stored expiry, and the account is not verified.
C8_VerifyIffStrictlyBeforeExpiry ==
    (resp.op = "verify" /\ resp.user /= NoUser) =>
        (resp.status = 200 <=>
            /\ verify_password(resp.code, resp.user.verification_code)
            /\ now < resp.user.verification_code_expires_at
            /\ ~resp.user.is_verified)

\* C8 amended: verify_email, on the account the request fetched, succeeds iff
\* the code matches the stored hash, the time is not past the stored expiry
\* (it succeeds at the instant of the expiry), and the account is not
\* verified.
C8_VerifyIffNotPastExpiry ==
    (resp.op = "verify" /\ resp.user /= NoUser) =>
        (resp.status = 200 <=>
            /\ verify_password(resp.code, resp.user.verification_code)
            /\ now <= resp.user.verification_code_expires_at
            /\ ~resp.user.is_verified)

\* a verification succeeded at the instant of the stored expiry
C8_Witness ==
    /\ resp.op = "verify"
    /\ resp.status = 200
    /\ now = resp.user.verification_code_expires_at

\* an account holds the email
HasAccount(email) == \E i \in DOMAIN users : users[i].email = email

\* C9: a signup answered 201 created the account of its email under a new id
\* and both returned tokens decode to that id; a signup whose email an
\* account holds is answered 400 "Email already registered", goes no further
\* and creates no account. A signup that begins is one that leaves the
\* requests in flight as they were or enters its commit.
C9_SignupTokensAndDuplicate ==
    [][/\ (resp = Idle /\ resp'.op = "signup" /\ resp'.status = 201) =>
            /\ resp'.target \notin DOMAIN users
            /\ DOMAIN users' = DOMAIN users \cup {resp'.target}
            /\ users'[resp'.target].email = resp'.email
            /\ ~DecodeFails(resp'.access_token, now)
            /\ ~DecodeFails(resp'.refresh_token, now)
            /\ SubjectOf(resp'.access_token) = resp'.target
            /\ SubjectOf(resp'.refresh_token) = resp'.target
       /\ \A r \in Reqs :
            (req[r].pc = "idle" /\ req'[r].pc = "register_commit") =>
                ~HasAccount(req'[r].email)
       /\ (resp = Idle /\ resp'.op = "signup" /\ req' = req
              /\ HasAccount(resp'.email)) =>
            /\ resp'.status = 400
            /\ resp'.detail = "Email already registered"
            /\ users' = users]_vars

\* a signup was answered 400 while an account holds its email
C9_Witness ==
    /\ resp.op = "signup"
    /\ resp.status = 400
    /\ HasAccount(resp.email)

\* C10: a signup that is not answered 201 is answered 400, also when it lost
\* the race for its email to a concurrent signup.
C10_LosingSignupGets400 ==
    (resp.op = "signup" /\ resp.status /= 201) => resp.status = 400

\* the rows that are unverified and were created before cutoff
Stale(rows, cutoff) ==
    {i \in DOMAIN rows : ~rows[i].is_verified /\ rows[i].created_at < cutoff}

\* the cutoff of the cleanup run that answered: the one its report carries,
\* or that of this clock reading when the run selected nothing
CutoffOf(report) ==
    IF report.cutoff_date = NoTime THEN now - UNVERIFIED_USER_DELETE_DAYS
    ELSE report.cutoff_date

\* C11: the cleanup task never deletes an account that is verified at the
\* moment of the deletion, also when the account was verified or promoted
\* after the run had selected it.
C11_ReaperSparesVerified ==
    [][(resp = Idle /\ resp'.op = "cleanup") =>
          \A i \in DOMAIN users \ DOMAIN users' : ~users[i].is_verified]_vars

\* C12: a cleanup run deletes exactly the accounts that are unverified and
\* were created before its cutoff, leaves every other account as it was, and
\* reports the count, ids and emails of exactly the deleted accounts.
C12_ReaperDeletesExactlyStale ==
    [][(resp = Idle /\ resp'.op = "cleanup") =>
          LET stale == Stale(users, CutoffOf(resp'))
          IN /\ DOMAIN users' = DOMAIN users \ stale
             /\ \A i \in DOMAIN users' : users'[i] = users[i]
             /\ resp'.status = Cardinality(stale)
             /\ resp'.ids = stale
             /\ resp'.emails = {users[i].email : i \in stale}]_vars

\* C13: after a cleanup run no account matches the run's cutoff, and a run
\* that starts while no account matches deletes nothing and reports zero: a
\* second run at the clock reading of the first deletes nothing.
C13_ReaperIdempotent ==
    [][/\ (resp = Idle /\ resp'.op = "cleanup") =>
            Stale(users', CutoffOf(resp')) = {}
       /\ \A r \in Reqs :
            (req[r].pc = "idle" /\ req'[r].pc = "cleanup_delete") =>
                Stale(users, now - UNVERIFIED_USER_DELETE_DAYS) /= {}
       /\ (resp = Idle /\ resp'.op = "cleanup" /\ req' = req) =>
            /\ Stale(users, now - UNVERIFIED_USER_DELETE_DAYS) = {}
            /\ resp'.status = 0
            /\ resp'.ids = {}
            /\ users' = users]_vars

\* a run reports zero on a store whose only account an earlier run deleted
C13_Witness ==
    /\ resp.op = "cleanup"
    /\ resp.status = 0
    /\ DOMAIN users = {}
    /\ nextId > 1
    /\ \A r \in Reqs : req[r].pc = "idle"

\* a resend has just committed a new code on an account
Resent == resp = Idle /\ resp'.op = "resend" /\ resp'.status = 200

\* C14 as stated: once a resend has succeeded, the code stored before it no
\* longer verifies the account: no code that matched the stored hash before
\* the resend matches the hash stored after it.
C14_ResendInvalidatesOriginal ==
    [][Resent =>
          \A c \in Codes :
              verify_password(c, users[resp'.uid].verification_code)
                  => ~verify_password(c, users'[resp'.uid].verification_code)]_vars

\* C14 amended: once a resend has succeeded, the stored hash is that of the
\* newly drawn code and of no other code; a verification decides on the row
\* as stored when it began, and succeeds only with a code that matches it.
\* The original code therefore fails unless the resend drew it again.
C14_ResendStoresNewCodeOnly ==
    [][/\ Resent =>
            \A c \in Codes :
                verify_password(c, users'[resp'.uid].verification_code) <=> c = resp'.code
       /\ \A r \in Reqs :
            (req[r].pc = "idle" /\ req'[r].pc = "verify") =>
                /\ req'[r].user.id \in DOMAIN users
                /\ req'[r].user.verification_code
                       = users[req'[r].user.id].verification_code
       /\ (resp = Idle /\ resp'.op = "verify" /\ resp'.status = 200) =>
            verify_password(resp'.code, resp'.user.verification_code)]_vars

\* the original code is refused on an account whose code a resend replaced
C14_Witness ==
    /\ resp.op = "verify"
    /\ resp.status = 400
    /\ resp.detail = "Invalid verification code"
    /\ resp.code = "000000"
    /\ resp.user.verification_code = hash_password("000001")

\* the status and message of a response
Answer(response) == [status |-> response.status, detail |-> response.detail]

\* C15: every failed login gets the same status 401 and the same message,
\* whether its email is unregistered or its password is wrong: the response
\* just given is that failure, and any two logins that fail on the present
\* store get equal answers.
C15_LoginFailuresIdentical ==
    /\ (resp.op = "login" /\ resp.status /= 200) =>
          Answer(resp) = [status |-> 401, detail |-> "Incorrect email or password"]
    /\ \A e1 \in Emails, e2 \in Emails, p1 \in LoginPasswords, p2 \in LoginPasswords :
          LET a == login_user(users, e1, p1)
              b == login_user(users, e2, p2)
          IN (a.status /= 200 /\ b.status /= 200) => Answer(a) = Answer(b)

\* a login with a registered email and a wrong password has failed, while
\* another email is unregistered
C15_Witness ==
    /\ resp.op = "login"
    /\ resp.status = 401
    /\ HasAccount(resp.email)
    /\ \E e \in Emails : ~HasAccount(e)

\* the rows of the users table without the account of email
Without(email) ==
    [i \in {j \in DOMAIN users : users[j].email /= email} |-> users[i]]

\* C16: signup and login answer a caller who does not know the password the
\* same whether or not an account holds the email: the answers on the store
\* and on the store without that account are equal.
C16_EmailExistenceHidden ==
    \A e \in Emails :
        /\ SignupAnswer(users, e) = SignupAnswer(Without(e), e)
        /\ \A p \in LoginPasswords :
              login_user(users, e, p).status /= 200 =>
                  Answer(login_user(users, e, p)) = Answer(login_user(Without(e), e, p))

\* C17: login answers 200 iff an account holds the email and the password
\* verifies against that account's hash, whatever is_verified is; the two
\* tokens then carry that account's id; and an account's password hash stays
\* the one it was created with.
C17_LoginIffCredentials ==
    [][/\ (resp = Idle /\ resp'.op = "login") =>
            LET held == {i \in DOMAIN users :
                            /\ users[i].email = resp'.email
                            /\ verify_password(resp'.password, users[i].hashed_password)}
            IN /\ resp'.status = 200 <=> held /= {}
               /\ resp'.status = 200 =>
                    /\ SubjectOf(resp'.access_token) \in held
                    /\ SubjectOf(resp'.refresh_token) \in held
                    /\ KindOf(resp'.refresh_token) = "refresh"
               /\ resp'.status /= 200 =>
                    /\ resp'.access_token = NoToken
                    /\ resp'.refresh_token = NoToken
       /\ \A i \in DOMAIN users :
            i \in DOMAIN users' => users'[i].hashed_password = users[i].hashed_password
       /\ \A i \in DOMAIN users' \ DOMAIN users :
            \E p \in SignupPasswords : users'[i].hashed_password = hash_password(p)]_vars

\* an unverified account has logged in
C17_Witness ==
    /\ resp.op = "login"
    /\ resp.status = 200
    /\ resp.uid \in DOMAIN users
    /\ ~users[resp.uid].is_verified

\* the token carries the signature of the key
Signed(token) == token.sig = SECRET_KEY
\* the clock is past the expiry the token carries
Expired(token) == token.payload.exp < now

\* C18: refresh answers 401 to a token that is badly signed or expired, 404
\* "User not found" to a valid refresh token whose account is gone, and 200
\* with two tokens of the submitted token's subject to a valid refresh token
\* of an existing account.
C18_RefreshOutcomes ==
    resp.op = "refresh" =>
        /\ (~Signed(resp.token) \/ Expired(resp.token)) =>
              /\ resp.status = 401
              /\ resp.access_token = NoToken
              /\ resp.refresh_token = NoToken
        /\ (Signed(resp.token) /\ ~Expired(resp.token) /\ KindOf(resp.token) = "refresh") =>
              IF SubjectOf(resp.token) \in DOMAIN users
              THEN /\ resp.status = 200
                   /\ SubjectOf(resp.access_token) = SubjectOf(resp.token)
                   /\ SubjectOf(resp.refresh_token) = SubjectOf(resp.token)
                   /\ KindOf(resp.refresh_token) = "refresh"
              ELSE /\ resp.status = 404
                   /\ resp.detail = "User not found"
                   /\ resp.access_token = NoToken
                   /\ resp.refresh_token = NoToken

\* refresh answered 404 to a valid refresh token of a deleted account
C18_Witness ==
    /\ resp.op = "refresh"
    /\ resp.status = 404
    /\ Signed(resp.token)
    /\ ~Expired(resp.token)
    /\ KindOf(resp.token) = "refresh"
    /\ SubjectOf(resp.token) \notin DOMAIN users

\* C19: a refresh token that refresh has already answered 200 to is answered
\* 200 again at every time up to its expiry while its account exists.
C19_RotationDoesNotRevoke ==
    [][(/\ resp = Idle
        /\ resp'.op = "refresh"
        /\ <<resp'.token, 1>> \in rotated
        /\ ~Expired(resp'.token)
        /\ SubjectOf(resp'.token) \in DOMAIN users) => resp'.status = 200]_vars

\* a refresh token was answered 200 a second time, after the clock reading
\* of its issue
C19_Witness ==
    /\ resp.op = "refresh"
    /\ resp.status = 200
    /\ <<resp.token, 2>> \in rotated
    /\ now > resp.token.payload.exp - REFRESH_TOKEN_EXPIRE_DAYS

\* C20: the tokens a response returns carry the expiry now + lifetime of
\* their kind; a signed token is accepted by decode at every time before its
\* expiry and answered 401 at every time after it, at /auth/refresh and
\* behind get_current_user.
C20_TokenLifetime ==
    /\ (resp.op \in {"signup", "login", "refresh"} /\ resp.status \in {200, 201}) =>
          /\ resp.access_token.payload.exp = now + ACCESS_TOKEN_EXPIRE_MINUTES
          /\ resp.refresh_token.payload.exp = now + REFRESH_TOKEN_EXPIRE_DAYS
    /\ (resp.op \in {"refresh", "me"} /\ Signed(resp.token)) =>
          /\ Expired(resp.token) => resp.status = 401
          /\ now < resp.token.payload.exp =>
                /\ resp.detail /= "Invalid or expired refresh token"
                /\ resp.detail /= "Could not validate credentials"

\* an expired token of the key was answered 401 behind get_current_user
C20_Witness ==
    /\ resp.op = "me"
    /\ Signed(resp.token)
    /\ Expired(resp.token)
    /\ resp.status = 401

\* decoding the token succeeds now and yields the subject id
DecodesTo(token, id) ==
    /\ ~DecodeFails(token, now)
    /\ ParseInt(decode_token(token).sub) = id

C22_ApiNeverChangesRole ==
    [][/\ \A i \in DOMAIN users :
            (i \in DOMAIN users' /\ users'[i].role /= users[i].role) =>
                resp'.op = "create_admin"
       /\ \A i \in DOMAIN users' \ DOMAIN users :
            resp'.op = "signup" => users'[i].role = USER]_vars

\* an admin's PATCH has updated an account whose role is still USER
C22_Witness ==
    /\ resp.op = "patch"
    /\ resp.status = 200
    /\ resp.target \in DOMAIN users
    /\ users[resp.target].role = USER

\* the four routes behind require_admin
AdminOps == {"list", "get", "patch", "delete"}

\* C23: a list, get, patch or delete request whose bearer token authenticates
\* an existing account with a role other than ADMIN is answered 403 at once,
\* with the store and the requests in flight unchanged, whatever its target
\* and whether or not the caller is verified; a request that enters one of
\* these handlers was sent by an account whose role is ADMIN.
C23_NonAdminForbidden ==
    [][/\ (/\ resp = Idle
           /\ resp'.op \in AdminOps
           /\ resp'.token /= NoToken
           /\ ValidNow(resp'.token)
           /\ SubjectOf(resp'.token) \in DOMAIN users
           /\ users[SubjectOf(resp'.token)].role /= ADMIN)
          => /\ resp'.status = 403
             /\ users' = users
             /\ nextId' = nextId
             /\ req' = req
       /\ \A r \in Reqs :
            (req[r].pc = "idle" /\ req'[r].op \in AdminOps)
                => /\ req'[r].uid \in DOMAIN users
                   /\ users[req'[r].uid].role = ADMIN]_vars

\* a verified account that is not an admin was refused the deletion of an
\* existing account
C23_Witness ==
    /\ resp.op = "delete"
    /\ resp.status = 403
    /\ resp.uid \in DOMAIN users
    /\ users[resp.uid].is_verified
    /\ users[resp.uid].role = USER
    /\ resp.target \in DOMAIN users

\* the payload of the token names a subject
HasSubject(token) == "sub" \in DOMAIN token.payload

\* C24: a request behind get_current_user (GET /users/me, verify-email)
\* whose bearer token is badly signed, expired or without subject is answered
\* 401, and one whose token is valid but whose subject account does not exist
\* is answered 404; in both cases nothing changes in the store and no handler
\* is entered. /users/me answers 200 and verify-email enters its handler only
\* with a valid token of an existing account.
C24_BearerRejects ==
    [][/\ (resp = Idle /\ resp'.op \in {"me", "verify"} /\ resp'.token /= NoToken)
          => LET token == resp'.token
                 bad == ~Signed(token) \/ Expired(token) \/ ~HasSubject(token)
                 gone == ~bad /\ SubjectOf(token) \notin DOMAIN users
             IN /\ bad => resp'.status = 401
                /\ gone => resp'.status = 404
                /\ (bad \/ gone) => users' = users /\ nextId' = nextId /\ req' = req
                /\ resp'.status = 200 => ~bad /\ ~gone
       /\ \A r \in Reqs :
            (req[r].pc = "idle" /\ req'[r].op = "verify")
                => /\ req'[r].user.id \in DOMAIN users
                   /\ req'[r].user = Row(req'[r].user.id)]_vars

\* verify-email was refused with 404: its token is valid and the account of
\* its subject has been deleted
C24_Witness ==
    /\ resp.op = "verify"
    /\ resp.status = 404
    /\ Signed(resp.token) /\ ~Expired(resp.token) /\ HasSubject(resp.token)
    /\ SubjectOf(resp.token) \notin DOMAIN users

\* C25: when resend_verification_code answers for an account that is
\* verified in the store, the answer is 400 "Email already verified" and the
\* account is afterwards verified with neither a code hash nor a code expiry.
C25_ResendOnVerifiedRefused ==
    [][(/\ resp = Idle
        /\ resp'.op = "resend"
        /\ resp'.token = NoToken
        /\ resp'.uid \in DOMAIN users
        /\ users[resp'.uid].is_verified)
       => /\ resp'.status = 400
          /\ resp'.detail = "Email already verified"
          /\ resp'.uid \in DOMAIN users'
          /\ users'[resp'.uid].is_verified
          /\ users'[resp'.uid].verification_code = None
          /\ users'[resp'.uid].verification_code_expires_at = NoTime]_vars

\* C26: a signup whose password has fewer than 8 characters is answered 422
\* with the store, the requests in flight and the issuable tokens unchanged
\* and no token in the response; only signups whose password has at least 8
\* characters reach register_user, and every new account has such a password.
C26_ShortPasswordRejected ==
    [][/\ (resp = Idle /\ resp'.op = "signup" /\ resp'.password /= ""
                /\ StrLen(resp'.password) < 8)
          => /\ resp'.status = 422
             /\ users' = users /\ nextId' = nextId /\ req' = req
             /\ issuable' = issuable
             /\ resp'.access_token = NoToken /\ resp'.refresh_token = NoToken
       /\ \A r \in Reqs :
            (req[r].pc = "idle" /\ req'[r].op = "signup")
                => StrLen(req'[r].password) >= 8
       /\ \A i \in DOMAIN users' \ DOMAIN users :
            \E password \in RoutePasswords :
                /\ StrLen(password) >= 8
                /\ users'[i].hashed_password = hash_password(password)]_vars

\* a signup with a password of 7 characters and an email no account holds
\* was refused
C26_Witness ==
    /\ resp.op = "signup"
    /\ resp.status = 422
    /\ StrLen(resp.password) = 7
    /\ \A i \in DOMAIN users : users[i].email /= resp.email

\* what the client receives of a response
Body(response) ==
    [status |-> response.status, detail |-> response.detail,
     access_token |-> response.access_token, refresh_token |-> response.refresh_token,
     expires_at |-> response.expires_at]

\* C27: no response of signup or of resend-verification contains the code
\* that was drawn: the body is the one register_user or
\* resend_verification_code would have returned with any other code, and no
\* message of these routes is a code.
C27_CodeNotInResponse ==
    [][(resp = Idle /\ resp'.op \in {"signup", "resend"})
       => /\ resp'.detail \notin Codes
          /\ (resp'.op = "resend" /\ resp'.status = 200) =>
                \A c \in Codes :
                    LET reply == resend_reply(c, now + VERIFICATION_CODE_EXPIRE_HOURS)
                    IN Body(resp') = [status |-> 200, detail |-> reply.message,
                                      access_token |-> NoToken, refresh_token |-> NoToken,
                                      expires_at |-> reply.expires_at]
          /\ (resp'.op = "signup" /\ resp'.status = 201) =>
                \A c \in Codes :
                    LET data == [sub |-> Str(resp'.target)]
                        reply == register_reply(c, create_access_token(data, now),
                                                create_refresh_token(data, now))
                    IN /\ resp'.access_token = reply.access_token
                       /\ resp'.refresh_token = reply.refresh_token
                       /\ resp'.detail = ""]_vars

\* a resend that drew a code other than the one of the signup was answered
\* with the fixed message
C27_Witness ==
    /\ resp.op = "resend"
    /\ resp.status = 200
    /\ resp.code = "000001"
    /\ resp.uid \in DOMAIN users
    /\ users[resp.uid].verification_code = hash_password("000001")
    /\ resp.detail = "New verification code sent"

\* C28: a login or a refresh, successful or failed, leaves every field of
\* every account as it was, creates no account and deletes none.
C28_LoginRefreshReadOnly ==
    [][(resp = Idle /\ resp'.op \in {"login", "refresh"})
       => /\ users' = users
          /\ nextId' = nextId]_vars

\* a login succeeded and its account is still unverified, with its code
C28_Witness ==
    /\ resp.op = "login"
    /\ resp.status = 200
    /\ resp.uid \in DOMAIN users
    /\ ~users[resp.uid].is_verified
    /\ users[resp.uid].verification_code /= None

\* rows as verify_email can be handed them: verified or not, with no code or
\* with the hash of a code and an expiry
VerifyRows ==
    {[NoUser EXCEPT !.id = 1, !.is_verified = v, !.verification_code = ce[1],
                    !.verification_code_expires_at = ce[2]] :
        v \in BOOLEAN,
        ce \in {<<None, NoTime>>} \cup ({hash_password("000000")} \X (0..MaxTime))}

\* detail is what the precedence of verify_email's failures prescribes for
\* the row, the submitted code and the time t
FollowsPrecedence(row, code, t, detail) ==
    LET expired == row.verification_code_expires_at < t
        matches == row.verification_code = hash_password(code)
    IN /\ row.is_verified => detail = "Email already verified"
       /\ (~row.is_verified /\ row.verification_code = None)
            => detail = "No verification code found. Please request a new one."
       /\ (~row.is_verified /\ row.verification_code /= None /\ expired)
            => detail = "Verification code expired. Please request a new one."
       /\ (~row.is_verified /\ row.verification_code /= None /\ ~expired /\ ~matches)
            => detail = "Invalid verification code"
       /\ (~row.is_verified /\ row.verification_code /= None /\ ~expired /\ matches)
            => detail = ""

\* C29: verify_email fails by fixed precedence: already verified, else no
\* code stored, else code expired (also when the submitted code is right),
\* else invalid code. This holds of the failure it computes for every row,
\* code and the present time, and of every answer it gives: a 400 carries
\* the failure the precedence prescribes for the row it was handed and leaves
\* the store unchanged, and when a failure is prescribed the answer is that
\* 400.
C29_VerifyFailurePrecedence ==
    [][/\ \A row \in VerifyRows, code \in Codes :
            FollowsPrecedence(row, code, now, verify_email_error(row, code, now))
       /\ (resp = Idle /\ resp'.op = "verify" /\ resp'.token = NoToken)
          => /\ resp'.status = 400 =>
                  /\ resp'.detail /= ""
                  /\ FollowsPrecedence(resp'.user, resp'.code, now, resp'.detail)
                  /\ users' = users
             /\ resp'.status /= 400 =>
                  FollowsPrecedence(resp'.user, resp'.code, now, "")]_vars

\* the code expired answer was given to the right code
C29_Witness ==
    /\ resp.op = "verify"
    /\ resp.status = 400
    /\ resp.detail = "Verification code expired. Please request a new one."
    /\ resp.user.verification_code = hash_password(resp.code)
    /\ resp.user.verification_code_expires_at < now

\* C30: register_user sets the code expiry to the time of the signup plus
\* VERIFICATION_CODE_EXPIRE_HOURS, and the account a signup creates is
\* unverified, has role USER, the hash of the drawn code and that expiry.
C30_SignupCreatesUnverified ==
    [][/\ \A r \in Reqs :
            (req[r].pc = "idle" /\ req'[r].op = "signup")
                => req'[r].expires_at = now + VERIFICATION_CODE_EXPIRE_HOURS
       /\ \A r \in Reqs :
            (req[r].op = "signup" /\ req'[r].pc = "idle" /\ resp'.status = 201)
                => /\ DOMAIN users' \ DOMAIN users = {resp'.target}
                   /\ LET row == users'[resp'.target]
                      IN /\ ~row.is_verified
                         /\ row.role = USER
                         /\ row.verification_code /= None
                         /\ row.verification_code = hash_password(req[r].code)
                         /\ row.verification_code_expires_at = req[r].expires_at
                         /\ row.verification_code_expires_at /= NoTime]_vars

\* a signup was answered 201 and its account is unverified with role USER,
\* a code hash and an expiry one lifetime after the signup was received
C30_Witness ==
    /\ resp.op = "signup"
    /\ resp.status = 201
    /\ resp.target \in DOMAIN users
    /\ ~users[resp.target].is_verified
    /\ users[resp.target].role = USER
    /\ users[resp.target].verification_code = hash_password("000000")
    /\ users[resp.target].verification_code_expires_at
         = users[resp.target].created_at + VERIFICATION_CODE_EXPIRE_HOURS

\* C31: under the daily schedule every account whose retention ends before
\* the clock stops is eventually deleted or verified; a run that starts later
\* than created_at + UNVERIFIED_USER_DELETE_DAYS selects every account that
\* is then unverified, and the run's DELETE removes every account it
\* selected.
C31_StaleEventuallyDeleted ==
    /\ \A i \in 1..MaxUsers :
          (/\ i \in DOMAIN users
           /\ users[i].created_at + UNVERIFIED_USER_DELETE_DAYS < MaxTime)
             ~> (i \notin DOMAIN users \/ users[i].is_verified)
    /\ [][/\ \A r \in Reqs :
               (req[r].pc = "idle" /\ req'[r].op = "cleanup") =>
                   \A i \in DOMAIN users :
                       (/\ ~users[i].is_verified
                        /\ now > users[i].created_at + UNVERIFIED_USER_DELETE_DAYS)
                          => i \in req'[r].ids
          /\ (resp = Idle /\ resp'.op = "cleanup") =>
               /\ resp'.ids \cap DOMAIN users' = {}
               /\ req' = req =>
                    \A i \in DOMAIN users :
                        \/ users[i].is_verified
                        \/ now <= users[i].created_at + UNVERIFIED_USER_DELETE_DAYS]_vars

\* a run that started after the retention of an unverified account has
\* deleted it
C31_Witness ==
    /\ resp.op = "cleanup"
    /\ resp.status = 1
    /\ resp.ids = {1}
    /\ 1 \notin DOMAIN users
    /\ resp.cutoff_date = now - UNVERIFIED_USER_DELETE_DAYS

\* C32: an unverified account can always be verified by a resend followed by
\* a verification with the new code. A resend request with a valid token of
\* an existing account reaches resend_verification_code; its answer for an
\* account that exists and is unverified is 200, whatever the state of the
\* old code, and stores the hash of the new code with an expiry one lifetime
\* ahead; and a verification that read the row as it is stored, submits the
\* code whose hash is stored and answers before the stored expiry is answered
\* 200 and leaves the account verified.
C32_ResendThenVerifyUnsticks ==
    [][/\ (resp = Idle /\ resp'.op = "resend" /\ resp'.token /= NoToken)
          => \/ ~Signed(resp'.token)
             \/ Expired(resp'.token)
             \/ SubjectOf(resp'.token) \notin DOMAIN users
       /\ (/\ resp = Idle /\ resp'.op = "resend" /\ resp'.token = NoToken
           /\ resp'.uid \in DOMAIN users
           /\ ~users[resp'.uid].is_verified)
          => /\ resp'.status = 200
             /\ users'[resp'.uid].verification_code = hash_password(resp'.code)
             /\ users'[resp'.uid].verification_code_expires_at
                  = now + VERIFICATION_CODE_EXPIRE_HOURS
             /\ ~users'[resp'.uid].is_verified
       /\ (/\ resp = Idle /\ resp'.op = "verify" /\ resp'.token = NoToken
           /\ resp'.uid \in DOMAIN users
           /\ resp'.user = Row(resp'.uid)
           /\ ~users[resp'.uid].is_verified
           /\ users[resp'.uid].verification_code = hash_password(resp'.code)
           /\ now < users[resp'.uid].verification_code_expires_at)
          => /\ resp'.status = 200
             /\ users'[resp'.uid].is_verified]_vars

\* an account whose first code had expired was verified with the code of a
\* later resend
C32_Witness ==
    /\ resp.op = "verify"
    /\ resp.status = 200
    /\ resp.code = "000001"
    /\ resp.uid \in DOMAIN users
    /\ users[resp.uid].is_verified
    /\ now > users[resp.uid].created_at + VERIFICATION_CODE_EXPIRE_HOURS

\* C33: no operation changes the created_at of an account that exists before
\* and after it; a resend or a verification therefore leaves unchanged, for
\* every cutoff, whether the account is old enough for the cleanup task.
C33_CreatedAtFixed ==
    [][/\ \A i \in DOMAIN users \cap DOMAIN users' :
            users'[i].created_at = users[i].created_at
       /\ (resp = Idle /\ resp'.op \in {"resend", "verify"}) =>
            \A i \in DOMAIN users', cutoff \in (0 - UNVERIFIED_USER_DELETE_DAYS)..MaxTime :
                (users'[i].created_at < cutoff) <=>
                    (i \in DOMAIN users /\ users[i].created_at < cutoff)]_vars

\* a resend issued a code later than the creation of its account, whose
\* created_at is still the time of the signup
C33_Witness ==
    /\ resp.op = "resend"
    /\ resp.status = 200
    /\ resp.uid \in DOMAIN users
    /\ users[resp.uid].created_at < now
    /\ users[resp.uid].verification_code_expires_at = now + VERIFICATION_CODE_EXPIRE_HOURS

\* C34: a cleanup run that finds no unverified account created before its
\* cutoff goes no further than its SELECT: it reports zero deletions, no ids,
\* no emails and no cutoff, and the store is as before; a run issues its
\* DELETE only when it selected an account.
C34_EmptyRunTouchesNothing ==
    [][/\ \A r \in Reqs :
            (/\ req[r].pc = "idle" /\ req'[r].op = "cleanup")
                => /\ req'[r].ids /= {}
                   /\ req'[r].ids = Stale(users, now - UNVERIFIED_USER_DELETE_DAYS)
       /\ (/\ resp = Idle /\ resp'.op = "cleanup"
           /\ \A r \in Reqs : req[r].op = "cleanup" => req'[r] = req[r])
          => /\ Stale(users, now - UNVERIFIED_USER_DELETE_DAYS) = {}
             /\ resp'.status = 0
             /\ resp'.ids = {}
             /\ resp'.emails = {}
             /\ resp'.cutoff_date = NoTime
             /\ users' = users
             /\ nextId' = nextId
             /\ req' = req]_vars

\* a run reported zero while the store holds an unverified account that is
\* not yet old enough
C34_Witness ==
    /\ resp.op = "cleanup"
    /\ resp.status = 0
    /\ resp.ids = {}
    /\ \E i \in DOMAIN users :
          /\ ~users[i].is_verified
          /\ users[i].created_at >= now - UNVERIFIED_USER_DELETE_DAYS
    /\ now >= UNVERIFIED_USER_DELETE_DAYS

\* C35: a cleanup run during which the store fails raises instead of
\* reporting and leaves the store as it was before the run's DELETE, and a
\* run that reports has deleted every account it selected: of the accounts a
\* run selected either all are deleted or none is.
C35_FailedRunRollsBack ==
    [][(resp = Idle /\ resp'.op = "cleanup") =>
          /\ resp'.detail \in {"report", "raise"}
          /\ resp'.detail = "raise" =>
                /\ users' = users
                /\ resp'.status = -1
                /\ resp'.ids = {} /\ resp'.emails = {}
          /\ resp'.detail = "report" =>
                /\ resp'.ids \cap DOMAIN users' = {}
                /\ resp'.status = Cardinality(resp'.ids)
          /\ \A r \in Reqs :
                (req[r].op = "cleanup" /\ req'[r].pc = "idle") =>
                    \/ req[r].ids \cap DOMAIN users' = {}
                    \/ req[r].ids \cap DOMAIN users' = req[r].ids \cap DOMAIN users]_vars

\* a run that had selected two accounts raised and both are still stored
C35_Witness ==
    /\ resp.op = "cleanup"
    /\ resp.detail = "raise"
    /\ Cardinality(Stale(users, now - UNVERIFIED_USER_DELETE_DAYS)) = 2

\* the requests of the API that write
MutatingOps == {"signup", "verify", "resend", "patch", "delete"}

\* C36: a signup, verification, resend, admin patch or admin delete whose
\* write fails is answered 500 and leaves every row, and the next id, as they
\* were; a request that changed the store is answered 200 or 201.
C36_FailedWriteRollsBack ==
    [][(resp = Idle /\ resp'.op \in MutatingOps) =>
          /\ resp'.status = 500 => (users' = users /\ nextId' = nextId)
          /\ users' /= users => resp'.status \in {200, 201}
          /\ \A r \in Reqs :
                (ReachesCommit(req[r]) /\ req'[r].pc = "idle" /\ users' = users
                    /\ Pending(req[r]) /= users)
                  => resp'.status = 500]_vars

\* the commit of an admin delete failed: the request was answered 500 and
\* its target is still stored
C36_Witness ==
    /\ resp.op = "delete"
    /\ resp.status = 500
    /\ resp.target \in DOMAIN users

\* C37: a verification is answered 200 only for an account that is
\* unverified in the store at that moment, so that at most one verification
\* of an account ever succeeds; a verification answered for an account that
\* is already verified in the store fails with "Email already verified".
C37_CodeConsumedOnce ==
    [][(/\ resp = Idle /\ resp'.op = "verify" /\ resp'.token = NoToken
        /\ resp'.uid \in DOMAIN users
        /\ users[resp'.uid].is_verified)
       => /\ resp'.status = 400
          /\ resp'.detail = "Email already verified"]_vars

\* the time a token was issued: its expiry less the lifetime of its kind
IssuedAt(token) ==
    token.payload.exp - (IF KindOf(token) = "refresh" THEN REFRESH_TOKEN_EXPIRE_DAYS
                         ELSE ACCESS_TOKEN_EXPIRE_MINUTES)

\* C38: a token authenticates only the account it was issued for: whenever
\* bearer authentication or refresh accepts a token, the account of its
\* subject id existed when the token was issued, so that no token issued for
\* an account that was deleted since is accepted for an account created
\* later.
C38_TokenBoundToAccount ==
    (resp.op \in {"me", "refresh"} /\ resp.status = 200) =>
        /\ SubjectOf(resp.token) \in DOMAIN users
        /\ users[SubjectOf(resp.token)].created_at <= IssuedAt(resp.token)

\* the fields neither verify_email nor resend_verification_code assigns
KeptFields(row) ==
    [email |-> row.email, hashed_password |-> row.hashed_password,
     role |-> row.role, created_at |-> row.created_at]

\* C39: verify_email and resend_verification_code write only the row of the
\* account their token names: get_current_user hands them the row whose id
\* is the token's subject; their answer leaves the set of accounts and every
\* other account as they were, and in the caller's account the email, the
\* password hash, the role and created_at; a resend leaves is_verified too,
\* and a call that is not answered 200 changes nothing.
C39_OnlyCallersAccount ==
    [][/\ \A token \in HeldTokens :
            get_current_user(token).status = 200
                => get_current_user(token).user = Row(SubjectOf(token))
       /\ (resp = Idle /\ resp'.op \in {"verify", "resend"} /\ resp'.token = NoToken)
          => /\ DOMAIN users' = DOMAIN users
             /\ \A i \in DOMAIN users :
                   /\ i /= resp'.uid => users'[i] = users[i]
                   /\ KeptFields(users'[i]) = KeptFields(users[i])
                   /\ resp'.op = "resend" => users'[i].is_verified = users[i].is_verified
             /\ resp'.status /= 200 => users' = users]_vars

\* a verification succeeded and changed its account while the other account
\* is still unverified with its code
C39_Witness ==
    /\ resp.op = "verify"
    /\ resp.status = 200
    /\ resp.uid \in DOMAIN users
    /\ users[resp.uid].is_verified
    /\ \E j \in DOMAIN users :
          /\ j /= resp.uid
          /\ ~users[j].is_verified
          /\ users[j].verification_code = hash_password("000000")

====
